---- MODULE Spec2Model ----
(***************************************************************************)
(* Model of the database lifecycle tool of blueprint/cli/src/bin/db.rs:    *)
(* the CLI dispatch and the five core operations drop, create, migrate,    *)
(* seed and reset, run against one PostgreSQL server that holds the        *)
(* target database (schema, migration ledger, seed data).                  *)
(*                                                                         *)
(* One action is one step of the program between two awaits (one round     *)
(* trip to the server, or one child process), with the synchronous code    *)
(* that follows it up to the next await or the return.                     *)
(***************************************************************************)
EXTENDS Integers, Sequences, FiniteSets, TLC

\* ------------------------------------------------------------------ bounds
\* Migration versions are 1..MaxVersion.
MaxVersion == 3
\* Number of statements of the seed script db/seeds.sql.
SeedLen == 2
\* Cap on the number of times one migration's statements may be committed.
MaxCommits == 2

Versions == 1..MaxVersion

\* ------------------------------------------------------------- pure helpers
Range(s) == {s[i] : i \in 1..Len(s)}

IsPrefix(s, t) == Len(s) <= Len(t) /\ \A i \in 1..Len(s) : s[i] = t[i]

NoDuplicates(s) == \A i, j \in 1..Len(s) : s[i] = s[j] => i = j

IsAscending(s) == \A i, j \in 1..Len(s) : i < j => s[i] < s[j]

\* The orders in which the files of the migrations directory can be listed.
DiscoveryOrders(S) ==
    {f \in [1..Cardinality(S) -> S] : \A i, j \in 1..Cardinality(S) : f[i] = f[j] => i = j}

RECURSIVE InsertByVersion(_, _)
InsertByVersion(v, s) ==
    IF s = <<>> THEN <<v>>
    ELSE IF v < Head(s) THEN <<v>> \o s
    ELSE <<Head(s)>> \o InsertByVersion(v, Tail(s))

RECURSIVE SortByVersion(_)
SortByVersion(s) ==
    IF s = <<>> THEN <<>> ELSE InsertByVersion(Head(s), SortByVersion(Tail(s)))

\* A migrator that keeps the order in which the files were listed.
MigratorNew_Unsorted(files) == files

\* Migrator::new(path): the migrations of the directory, ascending by version.
MigratorNew(files) == SortByVersion(files)

\* ------------------------------------------------------------ result values
TargetDb == "app_db"
RootDb == "postgres"

NoResult == [kind |-> "None", name |-> "", n |-> 0, ctx |-> "", ver |-> {}, cnt |-> {}]

OkName(nm) == [kind |-> "Ok", name |-> nm, n |-> 0, ctx |-> "", ver |-> {}, cnt |-> {}]

OkCount(k) == [kind |-> "Ok", name |-> "", n |-> k, ctx |-> "", ver |-> {}, cnt |-> {}]

OkUnit == [kind |-> "Ok", name |-> "", n |-> 0, ctx |-> "", ver |-> {}, cnt |-> {}]

\* anyhow error: the context message of the call site. ver and cnt are the
\* migration version and the count of applied migrations the error carries
\* (empty: it carries none).
Err(msg) == [kind |-> "Err", name |-> "", n |-> 0, ctx |-> msg, ver |-> {}, cnt |-> {}]

\* expect()/unwrap() on an Err: the thread panics, nothing is returned.
Panic(msg) == [kind |-> "Panic", name |-> "", n |-> 0, ctx |-> msg, ver |-> {}, cnt |-> {}]

\* The error of a failed connection.apply(migration): the context string is
\* the literal "Failed to apply migration {}!" (no argument is formatted into
\* it); the sqlx cause names the version when the failure is reported as
\* ExecuteMigration(_, version) (causeHasVer); the local counter `applied` is
\* not put into the error.
ApplyError(v, applied, causeHasVer) ==
    [kind |-> "Err", name |-> "", n |-> 0, ctx |-> "Failed to apply migration {}!",
     ver |-> IF causeHasVer THEN {v} ELSE {}, cnt |-> {}]

\* --------------------------------------------------------------- transactions
NoTx == [open |-> FALSE, stmts |-> {}, rows |-> <<>>, seeds |-> 0]
OpenTx == [open |-> TRUE, stmts |-> {}, rows |-> <<>>, seeds |-> 0]

\* COMMIT: the statements and rows of the transaction become durable.
SchemaAfterCommit(sch, t) == [v \in Versions |-> IF v \in t.stmts THEN sch[v] + 1 ELSE sch[v]]

LedgerAfterCommit_Replace(led, t) == t.rows

LedgerAfterCommit(led, t) == led \o t.rows

SeedAfterCommit(sd, t) == sd \cup (1..t.seeds)

\* ROLLBACK, also the Drop of an sqlx Transaction that was not committed and
\* the teardown of a connection with a transaction in flight.
SchemaAfterRollback_Partial(sch, t) == SchemaAfterCommit(sch, t)

SchemaAfterRollback(sch, t) == sch

LedgerAfterRollback(led, t) == led

\* A seed transaction whose executed statements stay when it is dropped.
SeedAfterRollback_Partial(sd, t) == SeedAfterCommit(sd, t)

SeedAfterRollback(sd, t) == sd

\* ------------------------------------------------------------------- state
VARIABLES
    source,             \* versions of the files in db/migrations
    dbExists,           \* the target database exists on the server
    tableExists,        \* the ledger table _sqlx_migrations exists in it
    ledger,             \* committed ledger rows (versions), in insertion order
    schema,             \* schema[v]: times the statements of v were committed
    seedData,           \* committed effects of seed statements (their indices)
    pc,                 \* position of the CLI process
    op,                 \* the subcommand of this invocation
    step,               \* the core operation in progress
    cfg,                \* config.database.url as loaded
    conn,               \* the open connections: the database each is attached to
    tx,                 \* the transaction in flight on that connection
    result,             \* what the core operation called by cli() ended with
    stepRes,            \* what each core operation of this invocation ended with
    migrator,           \* migrate: the Migrator's migrations
    appliedMigrations,  \* migrate: applied_migrations, read once before the loop
    idx,                \* migrate: position of the for loop in migrator
    applied,            \* migrate: the counter `applied`
    started,            \* history: core operations started by this invocation
    discovered,         \* history: the migration files in the order they were listed
    attempted,          \* history: versions whose apply began in this run
    ledger0,            \* history: the ledger when this migrate run began
    schema0,            \* history: the schema when this migrate run began
    sinceOk,            \* history: a migrate succeeded and nothing changed since
    idem,               \* history: sinceOk when this migrate run read the source
    seedRan,            \* history: statements the last seed attempt executed
    db0,                \* history: the target database when this invocation began
    phases,             \* history: the phases of this migrate run, in order
    opened,             \* history: the connections this invocation opened
    env,                \* what stdin and "cargo sqlx --version" may deliver
    checks,             \* preflight: outputs of the version checks, in order
    lastLine,           \* preflight: <<>> or <<buf>>, the line read last from stdin
    installed,          \* preflight: how far "cargo install sqlx-cli" got
    preRes,             \* preflight: what ensure_sqlx_cli_installed returned
    preRuns,            \* history: calls of ensure_sqlx_cli_installed
    loaded,             \* history: load_config was called
    other               \* a second migrate process on the same target database

dbVars == <<dbExists, tableExists, ledger, schema, seedData>>
migVars == <<migrator, appliedMigrations, idx, applied>>
runVars == <<discovered, attempted, ledger0, schema0, idem>>
preVars == <<env, checks, lastLine, installed, preRes, preRuns, loaded>>
auxVars == <<seedRan, preVars, db0, phases, opened, other>>
vars == <<source, dbExists, tableExists, ledger, schema, seedData, pc, op, step, cfg,
          conn, tx, result, stepRes, migrator, appliedMigrations, idx, applied,
          started, discovered, attempted, ledger0, schema0, sinceOk, idem,
          seedRan, db0, phases, opened, env, checks, lastLine, installed, preRes,
          preRuns, loaded, other>>

\* sqlx_cli_version!("0.8.2")
SQLX_CLI_VERSION == "0.8.2"
SQLX_CLI_VERSION_STRING == "sqlx-cli-sqlx 0.8.2"

\* The upper-case ASCII letters of the lines read, and their lower case.
LowerOf == [c \in {"Y", "E", "S", "N", "O", "X"} |->
              CASE c = "Y" -> "y" [] c = "E" -> "e" [] c = "S" -> "s"
                [] c = "N" -> "n" [] c = "O" -> "o" [] c = "X" -> "x"]

\* char::is_whitespace, on the characters of the lines read.
WhiteSpace == {" ", "\t", "\r", "\n"}

\* What std::process::Output of "cargo sqlx --version" can be: the command
\* could not be run, or it exited with a status and some (trimmed) stdout.
CheckOutput(spawned, success, stdout) ==
    [spawned |-> spawned, success |-> success, stdout |-> stdout]

AllOutputs ==
    {CheckOutput(FALSE, FALSE, ""),
     CheckOutput(TRUE, TRUE, SQLX_CLI_VERSION_STRING),
     CheckOutput(TRUE, TRUE, "sqlx-cli-sqlx 0.7.4"),
     CheckOutput(TRUE, FALSE, SQLX_CLI_VERSION_STRING),
     CheckOutput(TRUE, FALSE, "")}

\* The lines read_line can put into buf: nothing at end of input, else the
\* characters up to and including the line feed (or up to end of input).
AllLines ==
    {<<>>, <<"\n">>, <<" ", "\n">>,
     <<"y", "\n">>, <<"Y", "\n">>, <<"y", "e", "s", "\n">>, <<"Y", "E", "S", "\r", "\n">>,
     <<"y", "E", "s">>, <<"y", " ", "\t", "\n">>, <<" ", "y", "\n">>,
     <<"n", "\n">>, <<"N", "\n">>, <<"n", "o", "\n">>, <<"N", "O", "\r", "\n">>,
     <<"n", "o", " ">>, <<"x", "\n">>, <<"X", "\n">>, <<"y", "n", "\n">>,
     <<"y", "e", "\n">>, <<"n", "o", "n", "\n">>, <<"y", "\n", "x">>}

\* A terminal that answers y, n or something else, and a cargo whose
\* sqlx-cli is right, outdated or cannot be run.
PlainEnv ==
    [lines |-> {<<"y", "\n">>, <<"n", "\n">>, <<"x", "\n">>},
     outputs |-> {CheckOutput(FALSE, FALSE, ""),
                  CheckOutput(TRUE, TRUE, SQLX_CLI_VERSION_STRING),
                  CheckOutput(TRUE, TRUE, "sqlx-cli-sqlx 0.7.4")}]

\* Every line and every output above.
FullEnv == [lines |-> AllLines, outputs |-> AllOutputs]

Commands == {"drop", "create", "migrate", "seed", "reset", "prepare"}
Steps == {"drop", "create", "migrate", "seed"}
Urls == {"valid", "nodbname", "malformed", "adminname"}
Terminal == {"idle", "done", "panicked", "killed"}

EmptySchema == [v \in Versions |-> 0]
NoStepRes == [s \in Steps |-> NoResult]

\* The target database as an invocation finds it.
DbSnapshot(ex, led, sch, sd) == [exists |-> ex, ledger |-> led, schema |-> sch, seed |-> sd]

\* The database a descriptor names: the administrative database itself when
\* the URL names "postgres".
TargetOf(u) == IF u = "adminname" THEN RootDb ELSE TargetDb

\* A root client that connects to the database the descriptor names.
RootClientDb_Target(u) == TargetOf(u)

\* get_root_db_client: db_config.clone().database("postgres").
RootClientDb(u) == RootDb

\* get_db_client and db_config.connect(): the database the descriptor names.
TargetClientDb(u) == TargetOf(u)

\* A connection opened by core operation st to database db under descriptor u.
Opened(st, db, u) == [step |-> st, db |-> db, target |-> TargetOf(u)]

\* No second migrate process is running.
NoRun == [pc |-> "idle", conn |-> <<>>, tx |-> NoTx, migrator |-> <<>>,
          appliedMigrations |-> {}, idx |-> 1, applied |-> 0, result |-> NoResult,
          stepRes |-> NoStepRes, attempted |-> <<>>]

Start(e) ==
    /\ source = {}
    /\ dbExists = FALSE
    /\ tableExists = FALSE
    /\ ledger = <<>>
    /\ schema = EmptySchema
    /\ seedData = {}
    /\ pc = "idle"
    /\ op = "none"
    /\ step = "none"
    /\ cfg = "valid"
    /\ conn = <<>>
    /\ tx = NoTx
    /\ result = NoResult
    /\ stepRes = NoStepRes
    /\ migrator = <<>>
    /\ appliedMigrations = {}
    /\ idx = 1
    /\ applied = 0
    /\ started = <<>>
    /\ discovered = <<>>
    /\ attempted = <<>>
    /\ ledger0 = <<>>
    /\ schema0 = EmptySchema
    /\ sinceOk = FALSE
    /\ idem = FALSE
    /\ seedRan = 0
    /\ db0 = DbSnapshot(FALSE, <<>>, EmptySchema, {})
    /\ phases = <<>>
    /\ opened = <<>>
    /\ env = e
    /\ checks = <<>>
    /\ lastLine = <<>>
    /\ installed = "not_started"
    /\ preRes = NoResult
    /\ preRuns = 0
    /\ loaded = FALSE
    /\ other = NoRun

\* ------------------------------------------------------------- environment
\* A developer adds a migration file to db/migrations.
AddMigration ==
    /\ \E v \in Versions \ source : source' = source \cup {v}
    /\ sinceOk' = FALSE
    /\ UNCHANGED <<dbVars, pc, op, step, cfg, conn, tx, result, stepRes, migVars,
                   started, runVars>>
    /\ UNCHANGED auxVars

\* The process is terminated (signal, power loss) in the middle of an
\* invocation: the server tears the connection down and rolls back the
\* transaction in flight.
Kill ==
    /\ pc \notin Terminal
    /\ pc' = "killed"
    /\ conn' = <<>>
    /\ tx' = NoTx
    /\ schema' = SchemaAfterRollback(schema, tx)
    /\ ledger' = LedgerAfterRollback(ledger, tx)
    /\ seedData' = SeedAfterRollback(seedData, tx)
    /\ UNCHANGED <<source, dbExists, tableExists, op, step, cfg, result, stepRes,
                   migVars, started, runVars, sinceOk>>
    /\ UNCHANGED auxVars

\* --------------------------------------------------------------------- cli
\* A new invocation of the binary: cli() parses the subcommand.
CliStart ==
    /\ pc \in Terminal
    /\ \E cmd \in Commands : op' = cmd
    /\ pc' = "preflight"
    /\ step' = "none"
    /\ cfg' = "valid"
    /\ result' = NoResult
    /\ stepRes' = NoStepRes
    /\ started' = <<>>
    /\ discovered' = <<>>
    /\ attempted' = <<>>
    /\ idem' = FALSE
    /\ migrator' = <<>>
    /\ appliedMigrations' = {}
    /\ idx' = 1
    /\ applied' = 0
    /\ db0' = DbSnapshot(dbExists, ledger, schema, seedData)
    /\ seedRan' = 0
    /\ phases' = <<>>
    /\ opened' = <<>>
    /\ checks' = <<>>
    /\ lastLine' = <<>>
    /\ installed' = "not_started"
    /\ preRes' = NoResult
    /\ preRuns' = 0
    /\ loaded' = FALSE
    /\ ledger0' = ledger
    /\ schema0' = schema
    /\ UNCHANGED <<source, dbVars, conn, tx, sinceOk, other, env>>

\* ---------------------------------------------- ensure_sqlx_cli_installed
\* A cli() that goes on to load_config whatever the pre-flight check returned.
PreReturn_Continue(res) ==
    /\ preRes' = res
    /\ pc' = "load_config"

\* The return of ensure_sqlx_cli_installed into cli(): on Err cli() reports
\* the error and returns.
PreReturn(res) ==
    /\ preRes' = res
    /\ pc' = IF res.kind = "Ok" THEN "load_config" ELSE "done"

\* A version check that accepts any zero exit status.
IsSqlxCliInstalled_AnyVersion(out) ==
    IF ~out.spawned THEN "err"
    ELSE IF out.success THEN "true"
    ELSE "false"

\* is_sqlx_cli_installed: "cargo sqlx --version" must exit with success and
\* print the expected version string (out.stdout is the trimmed output).
IsSqlxCliInstalled(out) ==
    IF ~out.spawned THEN "err"
    ELSE IF out.success /\ out.stdout = SQLX_CLI_VERSION_STRING THEN "true"
    ELSE "false"

\* A lowercase conversion that changes nothing.
ToAsciiLowercase_Identity(line) == line

\* str::to_ascii_lowercase on the characters of the line.
ToAsciiLowercase(line) ==
    [i \in 1..Len(line) |->
        IF line[i] \in DOMAIN LowerOf THEN LowerOf[line[i]] ELSE line[i]]

\* str::trim_end: the line without its trailing white space.
RECURSIVE TrimEnd(_)
TrimEnd(line) ==
    IF line # <<>> /\ line[Len(line)] \in WhiteSpace
    THEN TrimEnd(SubSeq(line, 1, Len(line) - 1))
    ELSE line

\* The match on the line read: Continue, Break, or another round of the loop.
Answer(buf) ==
    LET line == TrimEnd(ToAsciiLowercase(buf))
    IN  IF line \in {<<>>, <<"y">>, <<"y", "e", "s">>} THEN "continue"
        ELSE IF line \in {<<"n">>, <<"n", "o">>} THEN "break"
        ELSE "again"

\* The call of ensure_sqlx_cli_installed from cli(): get_cargo_path()? and
\* the first version check.
CliPreflight ==
    /\ pc = "preflight"
    /\ preRuns' = preRuns + 1
    /\ \/ /\ PreReturn(Err("Please invoke me using Cargo"))
          /\ UNCHANGED checks
       \/ \E out \in env.outputs :
            /\ checks' = Append(checks, out)
            /\ CASE IsSqlxCliInstalled(out) = "err" -> PreReturn(Err("io error"))
                 [] IsSqlxCliInstalled(out) = "true" -> PreReturn(OkUnit)
                 [] IsSqlxCliInstalled(out) = "false" ->
                        pc' = "pre_prompt" /\ UNCHANGED preRes
    /\ UNCHANGED <<source, dbVars, op, step, cfg, conn, tx, result, stepRes, migVars,
                   started, runVars, sinceOk>>
    /\ UNCHANGED <<seedRan, db0, phases, opened, other, env, lastLine, installed, loaded>>

\* One round of the prompt loop: read_line into the empty buf, then the match.
PreAnswer ==
    /\ pc = "pre_prompt"
    /\ \/ /\ PreReturn(Err("io error"))
          /\ UNCHANGED lastLine
       \/ \E buf \in env.lines :
            /\ lastLine' = <<buf>>
            /\ CASE Answer(buf) = "continue" -> pc' = "pre_install" /\ UNCHANGED preRes
                 [] Answer(buf) = "break" ->
                        PreReturn(Err("Installation of sqlx-cli canceled."))
                 [] Answer(buf) = "again" -> UNCHANGED <<pc, preRes>>
    /\ UNCHANGED <<source, dbVars, op, step, cfg, conn, tx, result, stepRes, migVars,
                   started, runVars, sinceOk>>
    /\ UNCHANGED <<seedRan, db0, phases, opened, other, env, checks, installed, preRuns,
                   loaded>>

\* cargo install sqlx-cli --version 0.8.2 --locked: spawn()?, wait()?, status.
PreInstall ==
    /\ pc = "pre_install"
    /\ \/ /\ installed' = "spawn_failed"
          /\ PreReturn(Err("io error"))
       \/ /\ installed' = "wait_failed"
          /\ PreReturn(Err("io error"))
       \/ /\ installed' = "exit_failure"
          /\ PreReturn(Err("Something went wrong when installing sqlx-cli. Please check output"))
       \/ /\ installed' = "exit_success"
          /\ pc' = "pre_recheck"
          /\ UNCHANGED preRes
    /\ UNCHANGED <<source, dbVars, op, step, cfg, conn, tx, result, stepRes, migVars,
                   started, runVars, sinceOk>>
    /\ UNCHANGED <<seedRan, db0, phases, opened, other, env, checks, lastLine, preRuns,
                   loaded>>

\* The version check after the install, and the value returned from it.
PreRecheck ==
    /\ pc = "pre_recheck"
    /\ \E out \in env.outputs :
         /\ checks' = Append(checks, out)
         /\ CASE IsSqlxCliInstalled(out) = "true" -> PreReturn(OkUnit)
              [] IsSqlxCliInstalled(out) = "false" ->
                     PreReturn(Err("sqlx-cli was not detected after installation"))
              [] IsSqlxCliInstalled(out) = "err" -> PreReturn(Err("io error"))
    /\ UNCHANGED <<source, dbVars, op, step, cfg, conn, tx, result, stepRes, migVars,
                   started, runVars, sinceOk>>
    /\ UNCHANGED <<seedRan, db0, phases, opened, other, env, lastLine, installed,
                   preRuns, loaded>>

\* --------------------------------------------------------- cli(): dispatch
\* The first position of the core operation a subcommand dispatches to.
FirstPc(st) ==
    CASE st = "drop" -> "drop_connect"
      [] st = "create" -> "create_connect"
      [] st = "migrate" -> "mig_new"
      [] st = "seed" -> "seed_connect"
      [] st = "prepare" -> "prepare_run"

\* load_config(&cli.env) and the match on cli.command; reset begins with drop.
\* What the pre-flight check kept in its locals is gone by now.
\* A URL that names the administrative database is given to drop, create and
\* reset only (migrate and seed inside "postgres" itself are left out).
CliLoadConfig ==
    /\ pc = "load_config"
    /\ loaded' = TRUE
    /\ checks' = <<>>
    /\ lastLine' = <<>>
    /\ installed' = "not_started"
    /\ \/ /\ pc' = "done"
          /\ UNCHANGED <<cfg, step, started>>
       \/ /\ \E u \in Urls :
               /\ u = "adminname" => op \in {"drop", "create", "reset"}
               /\ cfg' = u
          /\ step' = IF op = "reset" THEN "drop" ELSE op
          /\ pc' = FirstPc(step')
          /\ started' = <<step'>>
    /\ UNCHANGED <<source, dbVars, op, conn, tx, result, stepRes, migVars, runVars,
                   sinceOk>>
    /\ UNCHANGED <<seedRan, db0, phases, opened, other, env, preRes, preRuns>>

\* Commands::Prepare: "cargo sqlx prepare" in ./db with DATABASE_URL set; the
\* child process is not part of this program.
CliPrepare ==
    /\ pc = "prepare_run"
    /\ pc' = "done"
    /\ \/ result' = Err("Could not run cargo sqlx prepare!")
       \/ result' = Err("Error generating query metadata. Are you sure the database is running?")
       \/ result' = OkUnit
    /\ UNCHANGED <<source, dbVars, op, step, cfg, conn, tx, stepRes, migVars, started,
                   runVars, sinceOk>>
    /\ UNCHANGED auxVars

\* ------------------------------------------------- return of a core operation
\* A connection that stays open when its owner goes out of scope.
Release_Leak(c) == c

\* The connection of the operation (its local variable, the one opened last)
\* is dropped when the operation returns or unwinds.
Release(c) == IF c = <<>> THEN c ELSE SubSeq(c, 1, Len(c) - 1)

\* A reset() that goes on to the next step whatever the step returned.
Return_NoGate(res) ==
    /\ stepRes' = [stepRes EXCEPT ![step] = res]
    /\ conn' = Release(conn)
    /\ sinceOk' = IF step = "migrate" /\ res.kind = "Ok" THEN source = Range(migrator)
                  ELSE IF step = "drop" /\ res.kind = "Ok" THEN FALSE
                  ELSE sinceOk
    /\ IF op = "reset" /\ step = "drop"
       THEN /\ step' = "create"
            /\ pc' = "create_connect"
            /\ started' = Append(started, "create")
            /\ result' = result
       ELSE IF op = "reset" /\ step = "create"
       THEN /\ step' = "migrate"
            /\ pc' = "mig_new"
            /\ started' = Append(started, "migrate")
            /\ result' = result
       ELSE /\ step' = step
            /\ pc' = "done"
            /\ started' = started
            /\ result' = IF op = "reset" /\ res.kind = "Ok"
                         THEN OkName(stepRes["create"].name)
                         ELSE res

\* A reset() that returns the database name whatever migrate returned.
Return_OkAnyway(res) ==
    /\ stepRes' = [stepRes EXCEPT ![step] = res]
    /\ conn' = Release(conn)
    /\ sinceOk' = IF step = "migrate" /\ res.kind = "Ok" THEN source = Range(migrator)
                  ELSE IF step = "drop" /\ res.kind = "Ok" THEN FALSE
                  ELSE sinceOk
    /\ IF op = "reset" /\ res.kind = "Ok" /\ step = "drop"
       THEN /\ step' = "create"
            /\ pc' = "create_connect"
            /\ started' = Append(started, "create")
            /\ result' = result
       ELSE IF op = "reset" /\ res.kind = "Ok" /\ step = "create"
       THEN /\ step' = "migrate"
            /\ pc' = "mig_new"
            /\ started' = Append(started, "migrate")
            /\ result' = result
       ELSE /\ step' = step
            /\ pc' = "done"
            /\ started' = started
            /\ result' = IF op = "reset" /\ step = "migrate"
                         THEN OkName(stepRes["create"].name)
                         ELSE res

\* The core operation in progress returns res to its caller: cli(), or
\* reset(), which goes on to the next step on Ok and returns the Err of the
\* step otherwise. The connection of the operation is dropped.
Return(res) ==
    /\ stepRes' = [stepRes EXCEPT ![step] = res]
    /\ conn' = Release(conn)
    /\ sinceOk' = IF step = "migrate" /\ res.kind = "Ok" THEN source = Range(migrator)
                  ELSE IF step = "drop" /\ res.kind = "Ok" THEN FALSE
                  ELSE sinceOk
    /\ IF op = "reset" /\ res.kind = "Ok" /\ step = "drop"
       THEN /\ step' = "create"
            /\ pc' = FirstPc("create")
            /\ started' = Append(started, "create")
            /\ result' = result
       ELSE IF op = "reset" /\ res.kind = "Ok" /\ step = "create"
       THEN /\ step' = "migrate"
            /\ pc' = FirstPc("migrate")
            /\ started' = Append(started, "migrate")
            /\ result' = result
       ELSE /\ step' = step
            /\ pc' = "done"
            /\ started' = started
            /\ result' = IF op = "reset" /\ res.kind = "Ok"
                         THEN OkName(stepRes["create"].name)
                         ELSE res

\* expect()/unwrap() on an Err inside the core operation in progress: the
\* panic unwinds through cli() and main(); the connection is dropped.
PanicWith(msg) ==
    /\ stepRes' = [stepRes EXCEPT ![step] = Panic(msg)]
    /\ result' = Panic(msg)
    /\ conn' = Release(conn)
    /\ pc' = "panicked"
    /\ UNCHANGED <<step, started, sinceOk>>

\* -------------------------------------------------------------------- drop
\* get_db_config, get_database and get_root_db_client of drop().
DropConnect ==
    /\ pc = "drop_connect"
    /\ IF cfg = "malformed"
       THEN PanicWith("Invalid DATABASE_URL!") /\ UNCHANGED opened
       ELSE IF cfg = "nodbname"
       THEN Return(Err("Failed to get database name!")) /\ UNCHANGED opened
       ELSE \/ PanicWith("connect_with unwrap on Err") /\ UNCHANGED opened
            \/ /\ conn' = Append(conn, RootClientDb(cfg))
               /\ opened' = Append(opened, Opened(step, RootClientDb(cfg), cfg))
               /\ pc' = "drop_exec"
               /\ UNCHANGED <<step, started, result, stepRes, sinceOk>>
    /\ UNCHANGED <<source, dbVars, op, cfg, tx, migVars, runVars>>
    /\ UNCHANGED <<seedRan, preVars, db0, phases, other>>

\* DROP DATABASE on the administrative connection, and the return of drop().
\* The server rejects it when the database does not exist and when the
\* connection is attached to the database to drop.
DropExec ==
    /\ pc = "drop_exec"
    /\ \/ /\ Return(Err("Failed to drop database!"))
          /\ UNCHANGED dbVars
       \/ /\ dbExists
          /\ conn[Len(conn)] # TargetOf(cfg)
          /\ dbExists' = FALSE
          /\ tableExists' = FALSE
          /\ ledger' = <<>>
          /\ schema' = EmptySchema
          /\ seedData' = {}
          /\ Return(OkName(TargetOf(cfg)))
    /\ UNCHANGED <<source, op, cfg, tx, migVars, runVars>>
    /\ UNCHANGED auxVars

\* ------------------------------------------------------------------ create
\* get_db_config, get_database and get_root_db_client of create().
CreateConnect ==
    /\ pc = "create_connect"
    /\ IF cfg = "malformed"
       THEN PanicWith("Invalid DATABASE_URL!") /\ UNCHANGED opened
       ELSE IF cfg = "nodbname"
       THEN Return(Err("Failed to get database name!")) /\ UNCHANGED opened
       ELSE \/ PanicWith("connect_with unwrap on Err") /\ UNCHANGED opened
            \/ /\ conn' = Append(conn, RootClientDb(cfg))
               /\ opened' = Append(opened, Opened(step, RootClientDb(cfg), cfg))
               /\ pc' = "create_exec"
               /\ UNCHANGED <<step, started, result, stepRes, sinceOk>>
    /\ UNCHANGED <<source, dbVars, op, cfg, tx, migVars, runVars>>
    /\ UNCHANGED <<seedRan, preVars, db0, phases, other>>

\* CREATE DATABASE on the administrative connection, and the return of create().
\* The server rejects it when the database exists (the one the connection is
\* attached to always does).
CreateExec ==
    /\ pc = "create_exec"
    /\ \/ /\ Return(Err("Failed to create database!"))
          /\ UNCHANGED dbVars
       \/ /\ ~dbExists
          /\ conn[Len(conn)] # TargetOf(cfg)
          /\ dbExists' = TRUE
          /\ UNCHANGED <<tableExists, ledger, schema, seedData>>
          /\ Return(OkName(TargetOf(cfg)))
    /\ UNCHANGED <<source, op, cfg, tx, migVars, runVars>>
    /\ UNCHANGED auxVars

\* ----------------------------------------------------------------- migrate
\* The transaction in flight is rolled back: by an explicit ROLLBACK, by the
\* Drop of the sqlx Transaction, or by the teardown of the connection.
Rollback(t) ==
    /\ schema' = SchemaAfterRollback(schema, t)
    /\ ledger' = LedgerAfterRollback(ledger, t)
    /\ seedData' = SeedAfterRollback(seedData, t)
    /\ tx' = NoTx

\* get_db_config and Migrator::new of migrate(): the files are listed in
\* any order.
MigrateStart ==
    /\ pc = "mig_new"
    /\ ledger0' = ledger
    /\ schema0' = schema
    /\ idem' = sinceOk
    /\ attempted' = <<>>
    /\ IF cfg = "malformed"
       THEN /\ PanicWith("Invalid DATABASE_URL!")
            /\ UNCHANGED <<migrator, discovered, phases>>
       ELSE \/ /\ Return(Err("Failed to create migrator!"))
               /\ phases' = Append(phases, "discover_failed")
               /\ UNCHANGED <<migrator, discovered>>
            \/ /\ \E files \in DiscoveryOrders(source) :
                    /\ discovered' = files
                    /\ migrator' = MigratorNew(files)
               /\ phases' = Append(phases, "discover")
               /\ pc' = "mig_connect"
               /\ UNCHANGED <<step, started, result, stepRes, conn, sinceOk>>
    /\ UNCHANGED <<source, dbVars, op, cfg, tx, appliedMigrations, idx, applied>>
    /\ UNCHANGED <<seedRan, preVars, db0, opened, other>>

\* A migrate that goes from the connection straight to the listing.
MigrateConnect_SkipEnsure ==
    /\ pc = "mig_connect"
    /\ \/ /\ Return(Err("Failed to connect to database!"))
          /\ UNCHANGED <<phases, opened>>
       \/ /\ dbExists
          /\ conn' = Append(conn, TargetClientDb(cfg))
          /\ opened' = Append(opened, Opened(step, TargetClientDb(cfg), cfg))
          /\ phases' = Append(phases, "connect")
          /\ pc' = "mig_list"
          /\ UNCHANGED <<step, started, result, stepRes, sinceOk>>
    /\ UNCHANGED <<source, dbVars, op, cfg, tx, migVars, runVars>>
    /\ UNCHANGED <<seedRan, preVars, db0, other>>

\* db_config.connect(): a connection to the target database.
MigrateConnect ==
    /\ pc = "mig_connect"
    /\ \/ /\ Return(Err("Failed to connect to database!"))
          /\ UNCHANGED <<phases, opened>>
       \/ /\ dbExists
          /\ conn' = Append(conn, TargetClientDb(cfg))
          /\ opened' = Append(opened, Opened(step, TargetClientDb(cfg), cfg))
          /\ phases' = Append(phases, "connect")
          /\ pc' = "mig_ensure"
          /\ UNCHANGED <<step, started, result, stepRes, sinceOk>>
    /\ UNCHANGED <<source, dbVars, op, cfg, tx, migVars, runVars>>
    /\ UNCHANGED <<seedRan, preVars, db0, other>>

\* connection.ensure_migrations_table(): CREATE TABLE IF NOT EXISTS.
MigrateEnsureTable ==
    /\ pc = "mig_ensure"
    /\ \/ /\ Return(Err("Failed to ensure migrations table!"))
          /\ UNCHANGED <<tableExists, phases>>
       \/ /\ tableExists' = TRUE
          /\ phases' = Append(phases, "ensure")
          /\ pc' = "mig_list"
          /\ UNCHANGED <<step, started, result, stepRes, conn, sinceOk>>
    /\ UNCHANGED <<source, dbExists, ledger, schema, seedData, op, cfg, tx, migVars,
                   runVars>>
    /\ UNCHANGED <<seedRan, preVars, db0, opened, other>>

\* A listing that returns no row.
AppliedVersions_Empty(led) == {}

\* The keys of the map collected from list_applied_migrations().
AppliedVersions(led) == Range(led)

\* connection.list_applied_migrations(), collected by version; then the
\* counter and the loop are set up.
MigrateListApplied ==
    /\ pc = "mig_list"
    /\ \/ /\ Return(Err("Failed to list applied migrations!"))
          /\ UNCHANGED <<appliedMigrations, idx, applied, phases>>
       \/ /\ tableExists
          /\ appliedMigrations' = AppliedVersions(ledger)
          /\ idx' = 1
          /\ applied' = 0
          /\ phases' = Append(phases, "list")
          /\ pc' = "mig_loop"
          /\ UNCHANGED <<step, started, result, stepRes, conn, sinceOk>>
    /\ UNCHANGED <<source, dbVars, op, cfg, tx, migrator, runVars>>
    /\ UNCHANGED <<seedRan, preVars, db0, opened, other>>

\* A filter that lets every migration of the source through.
NeedsApply_Always(v) == TRUE

\* A filter with the test inverted (is_some).
NeedsApply_Inverted(v) == v \in appliedMigrations

\* applied_migrations.get(&migration.version).is_none()
NeedsApply(v) == v \notin appliedMigrations

\* The for loop is exhausted: Ok(applied).
MigrateLoopDone ==
    /\ pc = "mig_loop"
    /\ idx > Len(migrator)
    /\ Return(OkCount(applied))
    /\ UNCHANGED <<source, dbVars, op, cfg, tx, migVars, runVars>>
    /\ UNCHANGED auxVars

\* The migration at the loop position is in applied_migrations: next one.
MigrateLoopSkip ==
    /\ pc = "mig_loop"
    /\ idx <= Len(migrator)
    /\ ~NeedsApply(migrator[idx])
    /\ idx' = idx + 1
    /\ UNCHANGED <<source, dbVars, pc, op, step, cfg, conn, tx, result, stepRes,
                   migrator, appliedMigrations, applied, started, runVars, sinceOk>>
    /\ UNCHANGED auxVars

\* connection.apply(migration), first round trip: BEGIN.
ApplyBegin ==
    /\ pc = "mig_loop"
    /\ idx <= Len(migrator)
    /\ NeedsApply(migrator[idx])
    /\ attempted' = Append(attempted, migrator[idx])
    /\ phases' = Append(phases, "apply")
    /\ \/ /\ Return(ApplyError(migrator[idx], applied, FALSE))
          /\ UNCHANGED tx
       \/ /\ tx' = OpenTx
          /\ pc' = "apply_exec"
          /\ UNCHANGED <<step, started, result, stepRes, conn, sinceOk>>
    /\ UNCHANGED <<source, dbVars, op, cfg, migVars, discovered, ledger0, schema0, idem>>
    /\ UNCHANGED <<seedRan, preVars, db0, opened, other>>

\* A loop that rolls a failed migration back and goes on to the next one.
ApplyExecute_Continue ==
    /\ pc = "apply_exec"
    /\ LET v == migrator[idx]
           t == [tx EXCEPT !.stmts = {v}]
       IN \/ /\ Rollback(t)
             /\ idx' = idx + 1
             /\ pc' = "mig_loop"
             /\ UNCHANGED <<step, started, result, stepRes, conn, sinceOk>>
          \/ /\ schema[v] < MaxCommits
             /\ tx' = t
             /\ pc' = "apply_record"
             /\ UNCHANGED <<ledger, schema, seedData, step, started, result, stepRes,
                            conn, sinceOk, idx>>
    /\ UNCHANGED <<source, dbExists, tableExists, op, cfg, migrator, appliedMigrations,
                   applied, runVars>>
    /\ UNCHANGED auxVars

\* connection.apply(migration): the migration's statements run inside the
\* transaction; when one fails the ones before it have run, the transaction
\* is rolled back and the error goes through `?` out of migrate().
ApplyExecute ==
    /\ pc = "apply_exec"
    /\ LET v == migrator[idx]
           t == [tx EXCEPT !.stmts = {v}]
       IN \/ /\ Rollback(t)
             /\ \E causeHasVer \in BOOLEAN : Return(ApplyError(v, applied, causeHasVer))
          \/ /\ schema[v] < MaxCommits
             /\ tx' = t
             /\ pc' = "apply_record"
             /\ UNCHANGED <<ledger, schema, seedData, step, started, result, stepRes,
                            conn, sinceOk>>
    /\ UNCHANGED <<source, dbExists, tableExists, op, cfg, migVars, runVars>>
    /\ UNCHANGED auxVars

\* A ledger table without a key on version.
ApplyRecord_NoKey ==
    /\ pc = "apply_record"
    /\ LET v == migrator[idx]
       IN \/ /\ Rollback(tx)
             /\ Return(ApplyError(v, applied, FALSE))
          \/ /\ tx' = [tx EXCEPT !.rows = <<v>>]
             /\ pc' = "apply_commit"
             /\ UNCHANGED <<ledger, schema, seedData, step, started, result, stepRes,
                            conn, sinceOk>>
    /\ UNCHANGED <<source, dbExists, tableExists, op, cfg, migVars, runVars>>
    /\ UNCHANGED auxVars

\* connection.apply(migration): the ledger row is inserted inside the same
\* transaction; version is the primary key of the ledger table: the INSERT
\* fails when the version is committed, and waits while another transaction
\* holds an uncommitted row of that version.
ApplyRecord ==
    /\ pc = "apply_record"
    /\ LET v == migrator[idx]
       IN \/ /\ Rollback(tx)
             /\ Return(ApplyError(v, applied, FALSE))
          \/ /\ v \notin Range(ledger)
             /\ v \notin Range(other.tx.rows)
             /\ tx' = [tx EXCEPT !.rows = <<v>>]
             /\ pc' = "apply_commit"
             /\ UNCHANGED <<ledger, schema, seedData, step, started, result, stepRes,
                            conn, sinceOk>>
    /\ UNCHANGED <<source, dbExists, tableExists, op, cfg, migVars, runVars>>
    /\ UNCHANGED auxVars

\* A loop that commits without counting.
ApplyCommit_NoCount ==
    /\ pc = "apply_commit"
    /\ \/ /\ Rollback(tx)
          /\ Return(ApplyError(migrator[idx], applied, FALSE))
          /\ UNCHANGED <<idx, applied>>
       \/ /\ schema' = SchemaAfterCommit(schema, tx)
          /\ ledger' = LedgerAfterCommit(ledger, tx)
          /\ seedData' = SeedAfterCommit(seedData, tx)
          /\ tx' = NoTx
          /\ applied' = applied
          /\ idx' = idx + 1
          /\ pc' = "mig_loop"
          /\ UNCHANGED <<step, started, result, stepRes, conn, sinceOk>>
    /\ UNCHANGED <<source, dbExists, tableExists, op, cfg, migrator, appliedMigrations,
                   runVars>>
    /\ UNCHANGED auxVars

\* connection.apply(migration): COMMIT; then ui.log and applied += 1.
ApplyCommit ==
    /\ pc = "apply_commit"
    /\ \/ /\ Rollback(tx)
          /\ Return(ApplyError(migrator[idx], applied, FALSE))
          /\ UNCHANGED <<idx, applied>>
       \/ /\ schema' = SchemaAfterCommit(schema, tx)
          /\ ledger' = LedgerAfterCommit(ledger, tx)
          /\ seedData' = SeedAfterCommit(seedData, tx)
          /\ tx' = NoTx
          /\ applied' = applied + 1
          /\ idx' = idx + 1
          /\ pc' = "mig_loop"
          /\ UNCHANGED <<step, started, result, stepRes, conn, sinceOk>>
    /\ UNCHANGED <<source, dbExists, tableExists, op, cfg, migrator, appliedMigrations,
                   runVars>>
    /\ UNCHANGED auxVars

\* Two instances of the binary run migrate on the same target database. The
\* one that takes steps has its connection, transaction and locals in the
\* variables, the other one's are parked in other; the scheduler exchanges
\* them.
Switch ==
    /\ other.pc \notin Terminal
    /\ other' = [pc |-> pc, conn |-> conn, tx |-> tx, migrator |-> migrator,
                 appliedMigrations |-> appliedMigrations, idx |-> idx,
                 applied |-> applied, result |-> result, stepRes |-> stepRes,
                 attempted |-> attempted]
    /\ pc' = other.pc
    /\ conn' = other.conn
    /\ tx' = other.tx
    /\ migrator' = other.migrator
    /\ appliedMigrations' = other.appliedMigrations
    /\ idx' = other.idx
    /\ applied' = other.applied
    /\ result' = other.result
    /\ stepRes' = other.stepRes
    /\ attempted' = other.attempted
    /\ UNCHANGED <<source, dbVars, op, step, cfg, started, discovered, ledger0, schema0,
                   sinceOk, idem, seedRan, preVars, db0, phases, opened>>

\* -------------------------------------------------------------------- seed
\* get_db_client(config) of seed(): get_db_config and connect_with, unwrapped.
SeedConnect ==
    /\ pc = "seed_connect"
    /\ IF cfg = "malformed"
       THEN PanicWith("Invalid DATABASE_URL!") /\ UNCHANGED opened
       ELSE \/ PanicWith("connect_with unwrap on Err") /\ UNCHANGED opened
            \/ /\ dbExists
               /\ conn' = Append(conn, TargetClientDb(cfg))
               /\ opened' = Append(opened, Opened(step, TargetClientDb(cfg), cfg))
               /\ pc' = "seed_begin"
               /\ UNCHANGED <<step, started, result, stepRes, sinceOk>>
    /\ UNCHANGED <<source, dbVars, op, cfg, tx, migVars, runVars>>
    /\ UNCHANGED <<seedRan, preVars, db0, phases, other>>

\* fs::read_to_string("./db/seeds.sql").expect(..), then connection.begin().
SeedBegin ==
    /\ pc = "seed_begin"
    /\ \/ PanicWith("Could not read seeds") /\ UNCHANGED tx
       \/ Return(Err("Failed to start transaction!")) /\ UNCHANGED tx
       \/ /\ tx' = OpenTx
          /\ pc' = "seed_exec"
          /\ UNCHANGED <<step, started, result, stepRes, conn, sinceOk>>
    /\ UNCHANGED <<source, dbVars, op, cfg, migVars, runVars>>
    /\ UNCHANGED auxVars

\* transaction.execute(statements): k statements of the script succeed. If
\* one fails the error goes through `?`; otherwise seed() returns Ok(()). On
\* both paths `transaction` goes out of scope without commit().
SeedExecute ==
    /\ pc = "seed_exec"
    /\ \E k \in 0..SeedLen :
          /\ seedRan' = k
          /\ Rollback([tx EXCEPT !.seeds = k])
          /\ Return(IF k < SeedLen THEN Err("Failed to execute seeds!") ELSE OkUnit)
    /\ UNCHANGED <<source, dbExists, tableExists, op, cfg, migVars, runVars>>
    /\ UNCHANGED <<preVars, db0, phases, opened, other>>

\* ------------------------------------------------------------ specification
Next ==
    \/ AddMigration
    \/ Kill
    \/ CliStart
    \/ CliPreflight
    \/ PreAnswer
    \/ PreInstall
    \/ PreRecheck
    \/ CliLoadConfig
    \/ CliPrepare
    \/ DropConnect
    \/ DropExec
    \/ CreateConnect
    \/ CreateExec
    \/ MigrateStart
    \/ MigrateConnect
    \/ MigrateEnsureTable
    \/ MigrateListApplied
    \/ MigrateLoopDone
    \/ MigrateLoopSkip
    \/ ApplyBegin
    \/ ApplyExecute
    \/ ApplyRecord
    \/ ApplyCommit
    \/ SeedConnect
    \/ SeedBegin
    \/ SeedExecute

Init == Start(PlainEnv)

Spec == Init /\ [][Next]_vars

\* The pre-flight check alone, on every line and every output.
InitPreflight == Start(FullEnv)

NextPreflight ==
    \/ Kill
    \/ CliStart
    \/ CliPreflight
    \/ PreAnswer
    \/ PreInstall
    \/ PreRecheck

SpecPreflight == InitPreflight /\ [][NextPreflight]_vars

\* Two migrate runs on a database that exists and has its ledger table, with
\* none or the first of the migrations applied; both runs have passed the
\* pre-flight check, loaded the configuration, built the migrator from the
\* same directory, connected and ensured the ledger table.
InitConc ==
    /\ source = Versions
    /\ dbExists = TRUE
    /\ tableExists = TRUE
    /\ ledger \in {<<>>, <<1>>}
    /\ schema = [v \in Versions |-> IF v \in Range(ledger) THEN 1 ELSE 0]
    /\ seedData = {}
    /\ pc = "mig_list"
    /\ op = "migrate"
    /\ step = "migrate"
    /\ cfg = "valid"
    /\ conn = <<TargetClientDb(cfg)>>
    /\ tx = NoTx
    /\ result = NoResult
    /\ stepRes = NoStepRes
    /\ discovered = [i \in 1..MaxVersion |-> i]
    /\ migrator = MigratorNew(discovered)
    /\ appliedMigrations = {}
    /\ idx = 1
    /\ applied = 0
    /\ started = <<"migrate">>
    /\ attempted = <<>>
    /\ ledger0 = ledger
    /\ schema0 = schema
    /\ sinceOk = FALSE
    /\ idem = FALSE
    /\ seedRan = 0
    /\ db0 = DbSnapshot(dbExists, ledger, schema, seedData)
    /\ phases = <<"discover", "connect", "ensure">>
    /\ opened = <<Opened("migrate", TargetClientDb(cfg), cfg)>>
    /\ env = PlainEnv
    /\ checks = <<>>
    /\ lastLine = <<>>
    /\ installed = "not_started"
    /\ preRes = OkUnit
    /\ preRuns = 1
    /\ loaded = TRUE
    /\ other = [NoRun EXCEPT !.pc = "mig_list", !.conn = conn, !.migrator = migrator]

NextConc ==
    \/ Switch
    \/ Kill
    \/ MigrateListApplied
    \/ MigrateLoopDone
    \/ MigrateLoopSkip
    \/ ApplyBegin
    \/ ApplyExecute
    \/ ApplyRecord
    \/ ApplyCommit

SpecConc == InitConc /\ [][NextConc]_vars

\* ------------------------------------------------------------------ claims
\* The versions whose statements are committed in the target database.
CommittedVersions == {v \in Versions : schema[v] > 0}

\* The migrations pending when the run began: in the migrator, not in the ledger.
PendingAtStart == SelectSeq(migrator, LAMBDA v : v \notin Range(ledger0))

\* The rows this run has added to the ledger.
CommittedInRun == SubSeq(ledger, Len(ledger0) + 1, Len(ledger))

\* migrate() has returned the error of a failed connection.apply().
ApplyFailed ==
    /\ pc = "done"
    /\ step = "migrate"
    /\ stepRes["migrate"].kind = "Err"
    /\ stepRes["migrate"].ctx = "Failed to apply migration {}!"

\* C1: in every reachable state, also after a failed migration and after the
\* process was terminated in the middle of a run, the versions in the ledger
\* are exactly the versions whose statements are committed.
C1_LedgerMatchesCommitted == Range(ledger) = CommittedVersions

\* C1 witness: the process was terminated inside the second migration's
\* transaction, after the first migration of the run had committed.
C1_Witness ==
    /\ pc = "killed"
    /\ step = "migrate"
    /\ ledger0 = <<>>
    /\ Len(attempted) = 2
    /\ Len(ledger) = 1

\* C2: whatever the order the files were listed in, a run applies in strictly
\* ascending version order and one at a time: when the apply of k has begun,
\* every pending j < k has committed, and at most one apply is uncommitted.
C2_AscendingOneAtATime ==
    /\ IsAscending(attempted)
    /\ \A i \in 1..Len(attempted) : \A j \in Range(PendingAtStart) :
          j < attempted[i] => j \in Range(CommittedInRun)
    /\ Len(attempted) <= Len(CommittedInRun) + 1

\* C2 witness: the files were listed out of order and the second pending
\* migration is being applied.
C2_Witness ==
    /\ ~IsAscending(discovered)
    /\ pc = "apply_exec"
    /\ Len(attempted) = 2

C4_SeedCommitted ==
    (pc = "done" /\ step = "seed" /\ result.kind = "Ok") => seedData = 1..SeedLen

\* The error messages each step of reset can return.
ResetStepOfError(msg) ==
    IF msg \in {"Failed to get database name!", "Failed to drop database!"} THEN "drop"
    ELSE IF msg = "Failed to create database!" THEN "create"
    ELSE "migrate"

\* C5: reset runs drop, create, migrate in this order, each step started only
\* after the previous one returned Ok, and an error it returns is the error
\* of the step that failed and identifies that step.
C5_ResetGated ==
    op = "reset" =>
        /\ IsPrefix(started, <<"drop", "create", "migrate">>)
        /\ (Len(started) >= 2 => stepRes["drop"].kind = "Ok")
        /\ (Len(started) >= 3 => stepRes["create"].kind = "Ok")
        /\ (result.kind = "Err" =>
              /\ pc = "done"
              /\ step = started[Len(started)]
              /\ result = stepRes[step]
              /\ ResetStepOfError(result.ctx) = step)
        /\ (result.kind = "Ok" =>
              /\ started = <<"drop", "create", "migrate">>
              /\ stepRes["migrate"].kind = "Ok")

\* C5 witness: create failed in a reset; migrate was not started.
C5_Witness ==
    /\ op = "reset"
    /\ pc = "done"
    /\ started = <<"drop", "create">>
    /\ result = Err("Failed to create database!")

\* C6: whenever the apply of a migration begins, its version is absent from
\* the ledger at that moment.
C6_NeverReapplies ==
    [][attempted' # attempted /\ attempted' # <<>>
         => attempted'[Len(attempted')] \notin Range(ledger)]_vars

\* C6 witness: a run that found versions in the ledger is applying another.
C6_Witness ==
    /\ pc = "apply_exec"
    /\ ledger0 # <<>>
    /\ appliedMigrations # {}
    /\ attempted # <<>>

\* C7: the error of a failed migration carries the failing version and the
\* count of migrations committed earlier in the run.
C7_ErrorCarriesVersionAndCount ==
    ApplyFailed =>
        /\ result.ver = {attempted[Len(attempted)]}
        /\ result.cnt = {Len(CommittedInRun)}

\* C8: every core operation ends by returning Ok or Err to its caller; no
\* failure ends it by a panic.
C8_AlwaysReturns == pc # "panicked" /\ result.kind # "Panic"

\* C9: across migrate runs the ledger is append-only (every step that is not
\* a DROP DATABASE extends it), holds no version twice and holds only
\* versions of the migration source.
C9_LedgerAppendOnly ==
    /\ [](NoDuplicates(ledger) /\ Range(ledger) \subseteq source)
    /\ [][(dbExists /\ ~dbExists') \/ IsPrefix(ledger, ledger')]_vars

\* C9 witness: a later run has added rows to a ledger that had rows.
C9_Witness ==
    /\ pc = "done"
    /\ step = "migrate"
    /\ ledger0 # <<>>
    /\ Len(ledger) > Len(ledger0)

\* C10: a migrate run that follows a successful one, with no migration added
\* since, applies nothing, leaves ledger and schema as they were and, when
\* it returns Ok, returns 0.
C10_Idempotent ==
    idem =>
        /\ attempted = <<>>
        /\ ledger = ledger0
        /\ schema = schema0
        /\ (stepRes["migrate"].kind = "Ok" => stepRes["migrate"] = OkCount(0))

\* C10 witness: the second run returned 0 on a ledger of two versions.
C10_Witness ==
    /\ idem
    /\ pc = "done"
    /\ op = "migrate"
    /\ result = OkCount(0)
    /\ Len(ledger) = 2

\* migrate() has returned Ok(applied).
MigrateOk ==
    /\ pc = "done"
    /\ step = "migrate"
    /\ stepRes["migrate"].kind = "Ok"

\* C11: a successful migrate has applied exactly the migrations of the source
\* that were not in the ledger when the run began, in order, and the count it
\* returns is their number and the number of rows the run added to the ledger.
C11_ResumeAndCount ==
    MigrateOk =>
        /\ Range(PendingAtStart) = Range(discovered) \ Range(ledger0)
        /\ attempted = PendingAtStart
        /\ CommittedInRun = PendingAtStart
        /\ IsPrefix(ledger0, ledger)
        /\ stepRes["migrate"].n = Len(PendingAtStart)
        /\ stepRes["migrate"].n = Len(ledger) - Len(ledger0)

\* C11 witness: the ledger held 1 and 2, the source 1, 2 and 3; the run
\* applied 3 and returned 1.
C11_Witness ==
    /\ MigrateOk
    /\ ledger0 = <<1, 2>>
    /\ Range(discovered) = {1, 2, 3}
    /\ attempted = <<3>>
    /\ stepRes["migrate"] = OkCount(1)

\* C12: after a migrate that returned Ok the versions in the ledger are
\* exactly the versions of the migration source the run read; on a ledger
\* that was empty they are exactly the versions the run applied.
C12_LedgerAccuracy ==
    MigrateOk =>
        /\ Range(ledger) = Range(discovered)
        /\ (ledger0 = <<>> => ledger = attempted)

\* C12 witness: a run on an empty ledger applied 1, 2 and 3.
C12_Witness ==
    /\ MigrateOk
    /\ ledger0 = <<>>
    /\ ledger = <<1, 2, 3>>

\* C13: when a statement of the seed batch fails, seed returns an error and
\* the statements that ran before it are rolled back: the target database
\* is as it was before the attempt.
C13_SeedAtomic ==
    (pc = "done" /\ step = "seed") =>
        /\ (result.kind = "Ok" => seedRan = SeedLen)
        /\ (result.kind = "Err" =>
              /\ seedData = db0.seed
              /\ ledger = db0.ledger
              /\ schema = db0.schema
              /\ dbExists = db0.exists
              /\ tx = NoTx)

\* C13 witness: the first statement ran and the second one failed.
C13_Witness ==
    /\ pc = "done"
    /\ step = "seed"
    /\ result = Err("Failed to execute seeds!")
    /\ seedRan = 1

\* A step of this invocation ended in an error or a panic.
StepFailed(st) == stepRes[st].kind \in {"Err", "Panic"}

\* C14: reset compensates nothing. If drop fails the database is as it was
\* and nothing is created; if create fails the database stays dropped; if
\* migrate fails the database exists with exactly a prefix, in ascending
\* version order, of the migrations applied; reset returns the database name
\* exactly when all three steps succeeded.
C14_ResetNoCompensation ==
    (op = "reset" /\ pc \in {"done", "panicked"} /\ started # <<>>) =>
        /\ (StepFailed("drop") =>
              /\ started = <<"drop">>
              /\ DbSnapshot(dbExists, ledger, schema, seedData) = db0)
        /\ (StepFailed("create") =>
              /\ started = <<"drop", "create">>
              /\ ~dbExists)
        /\ (StepFailed("migrate") =>
              /\ dbExists
              /\ ledger = SubSeq(SortByVersion(discovered), 1, Len(ledger))
              /\ \A v \in Versions : schema[v] = IF v \in Range(ledger) THEN 1 ELSE 0)
        /\ (result.kind = "Ok" <=>
              \A st \in {"drop", "create", "migrate"} : stepRes[st].kind = "Ok")
        /\ (result.kind = "Ok" => result = OkName(TargetDb))

\* C14 witness: migrate failed in a reset after the first of several
\* migrations was applied.
C14_Witness ==
    /\ op = "reset"
    /\ pc = "done"
    /\ StepFailed("migrate")
    /\ Len(discovered) >= 2
    /\ Len(ledger) = 1

\* The phases of a migrate run in the order of the code.
PhaseOrder == <<"discover", "connect", "ensure", "list">>

\* The position of the first phase ph in the run, 0 when it did not happen.
FirstAt(ph) ==
    IF \E i \in 1..Len(phases) : phases[i] = ph
    THEN CHOOSE i \in 1..Len(phases) : phases[i] = ph /\ \A j \in 1..(i - 1) : phases[j] # ph
    ELSE 0

\* C15 as claimed: the engine first ensures the ledger storage, then
\* discovers the source, then applies; ledger storage has been ensured when
\* discovery is made (and when it fails).
C15_EnsureBeforeDiscovery ==
    \A i \in 1..Len(phases) :
        phases[i] \in {"discover", "discover_failed"} =>
            \E j \in 1..(i - 1) : phases[j] = "ensure"

\* C15 amended: the engine first discovers the source, then connects and
\* ensures the ledger storage, then lists the applied versions, then applies;
\* storage is ensured before the ledger is listed and before any apply, and
\* when discovery fails no connection was opened and nothing was ensured.
C15_DiscoverThenEnsure ==
    /\ \/ phases = <<"discover_failed">>
       \/ IsPrefix(phases, PhaseOrder)
       \/ /\ IsPrefix(PhaseOrder, phases)
          /\ \A i \in (Len(PhaseOrder) + 1)..Len(phases) : phases[i] = "apply"
    /\ (pc \in {"mig_list", "mig_loop", "apply_exec", "apply_record", "apply_commit"}
          => FirstAt("ensure") > 0 /\ tableExists)
    /\ (FirstAt("list") > 0 => 0 < FirstAt("ensure") /\ FirstAt("ensure") < FirstAt("list"))
    /\ (FirstAt("apply") > 0 => 0 < FirstAt("ensure") /\ FirstAt("ensure") < FirstAt("apply"))
    /\ (FirstAt("ensure") > 0 => 0 < FirstAt("discover") /\ FirstAt("discover") < FirstAt("ensure"))
    /\ (phases = <<"discover_failed">> =>
          /\ \A i \in 1..Len(opened) : opened[i].step # "migrate"
          /\ stepRes["migrate"] = Err("Failed to create migrator!"))

\* C15 witness: discovery failed on an existing database whose ledger
\* storage this run never ensured.
C15_Witness ==
    /\ pc = "done"
    /\ op = "migrate"
    /\ phases = <<"discover_failed">>
    /\ dbExists
    /\ ~tableExists

\* The positions at which a core operation holds its connection.
HoldsConnection ==
    pc \in {"drop_exec", "create_exec", "mig_ensure", "mig_list", "mig_loop",
            "apply_exec", "apply_record", "apply_commit", "seed_begin", "seed_exec"}

\* C16: every connection an operation opens is closed when the operation
\* returns, on every exit path; at most one connection is open at any time;
\* no connection is used by two operations: each step of reset opens its own
\* after the previous step's connection was released.
C16_ConnectionsScoped ==
    /\ Len(conn) <= 1
    /\ (pc \in Terminal => conn = <<>>)
    /\ (pc \in {"drop_connect", "create_connect", "mig_new", "mig_connect", "seed_connect"}
          => conn = <<>>)
    /\ (HoldsConnection =>
          /\ Len(conn) = 1
          /\ opened # <<>>
          /\ opened[Len(opened)].step = step
          /\ opened[Len(opened)].db = conn[1])
    /\ \A i, j \in 1..Len(opened) : opened[i].step = opened[j].step => i = j
    /\ IsPrefix([i \in 1..Len(opened) |-> opened[i].step], started)

\* C16 witness: in a reset, migrate holds the third connection of the
\* invocation and the two before it are closed.
C16_Witness ==
    /\ op = "reset"
    /\ pc = "mig_ensure"
    /\ Len(opened) = 3
    /\ conn = <<TargetDb>>

\* Connection i of the invocation is on the administrative database for drop
\* and create and on the target database for migrate and seed.
OnRightDatabase(o) ==
    /\ o.step \in {"drop", "create"} => o.db = RootDb
    /\ o.step \in {"migrate", "seed"} => o.db = o.target

\* C17 as claimed: for every descriptor, drop and create run on a connection
\* to the administrative database that is not attached to the database being
\* dropped or created; migrate and seed run on a connection to the target.
C17_AdminNeverAttachedToTarget ==
    \A i \in 1..Len(opened) :
        /\ OnRightDatabase(opened[i])
        /\ opened[i].step \in {"drop", "create"} => opened[i].db # opened[i].target

\* C17 amended: the same for every descriptor that does not name the
\* administrative database; for one that does, the administrative connection
\* is attached to the target itself and neither drop nor create succeeds.
C17_AdminConnection ==
    /\ \A i \in 1..Len(opened) :
          /\ OnRightDatabase(opened[i])
          /\ (opened[i].step \in {"drop", "create"} /\ opened[i].target # RootDb)
                => opened[i].db # opened[i].target
    /\ (pc \in {"drop_exec", "create_exec"} => conn = <<RootDb>>)
    /\ ((HoldsConnection /\ step \in {"migrate", "seed"}) => conn = <<TargetOf(cfg)>>)
    /\ (cfg = "adminname" => stepRes["drop"].kind # "Ok" /\ stepRes["create"].kind # "Ok")

\* C17 witness: a reset that succeeded: drop and create on "postgres",
\* migrate on the target.
C17_Witness ==
    /\ op = "reset"
    /\ pc = "done"
    /\ result.kind = "Ok"
    /\ opened = <<Opened("drop", RootDb, "valid"), Opened("create", RootDb, "valid"),
                  Opened("migrate", TargetDb, "valid")>>

\* The positions inside ensure_sqlx_cli_installed.
InPreflight == pc \in {"pre_prompt", "pre_install", "pre_recheck"}

\* C18: the pre-flight check is called at most once in an invocation, and
\* once as soon as the invocation is past it; the configuration is loaded, a
\* connection is opened and an operation (prepare included) is started only
\* after it returned Ok; when it returns Err the invocation ends there and
\* the database is what it was at the start.
C18_PreflightFirstAndOnce ==
    /\ preRuns <= 1
    /\ (pc \notin {"idle", "preflight", "killed"} => preRuns = 1)
    /\ ((loaded \/ started # <<>> \/ opened # <<>> \/ conn # <<>> \/ tx.open
          \/ (pc \notin (Terminal \cup {"preflight"}) /\ ~InPreflight))
          => preRuns = 1 /\ preRes = OkUnit)
    /\ (preRes = NoResult =>
          /\ ~loaded /\ started = <<>> /\ opened = <<>> /\ result = NoResult
          /\ DbSnapshot(dbExists, ledger, schema, seedData) = db0)
    /\ (preRes.kind = "Err" =>
          /\ pc = "done"
          /\ ~loaded /\ started = <<>> /\ opened = <<>> /\ result = NoResult
          /\ DbSnapshot(dbExists, ledger, schema, seedData) = db0)

\* C18 witness: the check failed in an invocation against a migrated
\* database, which is as it was.
C18_Witness ==
    /\ pc = "done"
    /\ preRes = Err("Installation of sqlx-cli canceled.")
    /\ op = "reset"
    /\ dbExists
    /\ Len(ledger) = MaxVersion

\* A version check that matched: the command ran, exited with success and
\* printed the required version.
Matched(out) == out.spawned /\ out.success /\ out.stdout = "sqlx-cli-sqlx 0.8.2"

\* The words that mean yes, and those that mean no, in every letter case.
YesWords ==
    {<<>>, <<"y">>, <<"Y">>}
      \cup {<<a, b, c>> : a \in {"y", "Y"}, b \in {"e", "E"}, c \in {"s", "S"}}

NoWords == {<<"n">>, <<"N">>} \cup {<<a, b>> : a \in {"n", "N"}, b \in {"o", "O"}}

\* The line is one of the words, followed by white space only.
IsWordOf(words, line) ==
    \E k \in 0..Len(line) :
        /\ SubSeq(line, 1, k) \in words
        /\ \A i \in (k + 1)..Len(line) : line[i] \in {" ", "\t", "\r", "\n"}

\* C19: until cli() goes on (while the check's history is there): Ok is
\* returned only with a matching version check as the last one, which is the
\* first, or the second after an install that exited with success; the
\* install is started only after a first check that ran and did not match and
\* an affirmative line; a line n or no returns the cancel error with no
\* install; any other line leaves the check at the prompt; an install that
\* fails and a re-check that does not match return Err.
C19_PreflightOutcomes ==
    ~loaded =>
        /\ Len(checks) <= 2
        /\ (preRes.kind = "Ok" =>
              /\ checks # <<>>
              /\ Matched(checks[Len(checks)])
              /\ Len(checks) = 2 => installed = "exit_success")
        /\ ((installed # "not_started" \/ pc \in {"pre_install", "pre_recheck"}) =>
              /\ checks # <<>>
              /\ checks[1].spawned /\ ~Matched(checks[1])
              /\ lastLine # <<>>
              /\ IsWordOf(YesWords, lastLine[1]))
        /\ (Len(checks) = 2 => installed = "exit_success")
        /\ ((lastLine # <<>> /\ IsWordOf(NoWords, lastLine[1])) =>
              /\ pc = "done"
              /\ preRes = Err("Installation of sqlx-cli canceled.")
              /\ installed = "not_started")
        /\ ((lastLine # <<>> /\ ~IsWordOf(YesWords, lastLine[1])
                /\ ~IsWordOf(NoWords, lastLine[1])) =>
              /\ pc \in {"pre_prompt", "killed"} \/ (pc = "done" /\ preRes = Err("io error"))
              /\ installed = "not_started")
        /\ ((pc = "pre_prompt" /\ lastLine # <<>>) =>
              ~IsWordOf(YesWords, lastLine[1]) /\ ~IsWordOf(NoWords, lastLine[1]))
        /\ ((lastLine # <<>> /\ IsWordOf(YesWords, lastLine[1])) => pc # "pre_prompt")
        /\ ((installed \in {"spawn_failed", "wait_failed", "exit_failure"}) =>
              pc = "done" /\ preRes.kind = "Err" /\ Len(checks) = 1)
        /\ ((Len(checks) = 2 /\ ~Matched(checks[2])) => pc = "done" /\ preRes.kind = "Err")
        /\ ((checks # <<>> /\ ~checks[1].spawned) => pc = "done" /\ preRes.kind = "Err")

\* C19 witness: the first check found an outdated sqlx-cli, the user typed
\* YES, the install exited with success and the re-check matched.
C19_Witness ==
    /\ pc = "load_config"
    /\ preRes = OkUnit
    /\ checks = <<CheckOutput(TRUE, TRUE, "sqlx-cli-sqlx 0.7.4"),
                  CheckOutput(TRUE, TRUE, "sqlx-cli-sqlx 0.8.2")>>
    /\ lastLine = << <<"Y", "E", "S", "\r", "\n">> >>
    /\ installed = "exit_success"

\* The run that is taking steps, in the shape of the parked one.
ThisRun ==
    [pc |-> pc, conn |-> conn, tx |-> tx, migrator |-> migrator,
     appliedMigrations |-> appliedMigrations, idx |-> idx, applied |-> applied,
     result |-> result, stepRes |-> stepRes, attempted |-> attempted]

\* The versions a run has committed: all it attempted but the one in flight
\* or failed.
CommittedBy(r) == {r.attempted[i] : i \in 1..r.applied}

\* Run r is attempting, or has failed on, a version that run s committed.
AttemptsCommittedOf(r, s) ==
    /\ Len(r.attempted) > r.applied
    /\ r.attempted[Len(r.attempted)] \in CommittedBy(s)

\* Run r has stopped on the version it attempted last, with nothing of it
\* left in the database.
StoppedOnLast(r) ==
    /\ r.pc = "done"
    /\ r.tx = NoTx
    /\ r.result.kind = "Err"
    /\ r.result.ctx = "Failed to apply migration {}!"
    /\ r.idx <= Len(r.migrator)
    /\ r.migrator[r.idx] = r.attempted[Len(r.attempted)]

\* C20: with two migrate runs interleaved, no version is recorded twice in
\* the ledger, no migration's statements are committed twice, each committed
\* version was committed by exactly one of the runs, and a run attempting a
\* version the other one committed never gets to insert its row: it is still
\* before the INSERT, or it has failed on that version and stopped (or was
\* terminated), its transaction rolled back.
C20_NoDoubleApply ==
    /\ NoDuplicates(ledger)
    /\ \A v \in Versions : schema[v] <= 1
    /\ CommittedVersions = Range(ledger)
    /\ \A r \in {ThisRun, other} : r.applied <= Len(r.attempted)
                                   /\ Len(r.attempted) <= r.applied + 1
    /\ Range(ledger) = Range(ledger0) \cup CommittedBy(ThisRun) \cup CommittedBy(other)
    /\ CommittedBy(ThisRun) \cap CommittedBy(other) = {}
    /\ Range(ledger0) \cap (CommittedBy(ThisRun) \cup CommittedBy(other)) = {}
    /\ \A rs \in {<<ThisRun, other>>, <<other, ThisRun>>} :
          AttemptsCommittedOf(rs[1], rs[2]) =>
              /\ rs[1].tx.rows = <<>>
              /\ \/ rs[1].pc \in {"apply_exec", "apply_record", "killed"}
                 \/ StoppedOnLast(rs[1])

\* C20 witness: one run committed every migration and returned the count;
\* the other, which had listed the ledger before, failed on the first version
\* and stopped.
C20_Witness ==
    /\ ledger0 = <<>>
    /\ Len(ledger) = MaxVersion
    /\ \E rs \in {<<ThisRun, other>>, <<other, ThisRun>>} :
          /\ rs[2].pc = "done"
          /\ rs[2].result = OkCount(MaxVersion)
          /\ rs[1].appliedMigrations = {}
          /\ AttemptsCommittedOf(rs[1], rs[2])
          /\ StoppedOnLast(rs[1])
          /\ rs[1].attempted = <<1>>

====
